---- MODULE Spec2Model ----
(***************************************************************************)
(* Credential and token lifecycle of node-api-users: register, login,      *)
(* forgot-password, reset-password, verify-email, the JWT authentication   *)
(* middleware, the role middleware of the protected routes and the user    *)
(* resource, over a Firestore "users" collection.                          *)
(*                                                                         *)
(* Time is counted in minutes.  A JWT is modelled by the secret it was     *)
(* signed with and its payload (email, id, role, exp); iat is read by      *)
(* nothing but the computation of exp and is not kept.  An error message   *)
(* is the sequence of its words, so that handleError's substring test is   *)
(* computed rather than assumed.                                           *)
(***************************************************************************)
EXTENDS Integers, Sequences, FiniteSets, TLC

VARIABLES users, nextId, outbox, access, clock, res, req, pending, posts

vars == <<users, nextId, outbox, access, clock, res, req, pending, posts>>

----------------------------------------------------------------------------
(* Bounds of the model *)

\* reset mails sent, clock ticks, minutes a tick lasts
MaxResets == 1
MaxTicks == 2
TickStep == 10

Emails == {"a@x.com", "b@x.com"}
\* Accounts are registered with the first password; a reset or a login may
\* supply either, so a stored hash of the second one was written by a reset.
RegisterPasswords == {"Pw123456"}
Passwords == {"Pw123456", "NewPw123456"}
\* bcrypt draws the salt; one salt value keeps the hash distinct from the
\* plaintext while keeping the state space small
Salts == {"salt1"}
MaxClock == MaxTicks * TickStep
\* the password of the accounts found in the collection at start
SeedPassword == "Pw123456"
\* the email the interleaved register calls contend for
RaceEmails == {"a@x.com"}
\* the email the user resource and register both create documents for
CrudEmails == {"c@x.com"}
\* the ids the store hands out before the model stops creating documents
MaxUserId == 4
\* the clients that may have a register call in flight at the same time
MaxCallers == 2
Callers == 1..MaxCallers

----------------------------------------------------------------------------
(* Program constants *)

\* expiresIn: '15m' of the reset token, in minutes
ResetLifetime == 15
\* JWT_EXPIRES_IN = '1d' of the access token, in minutes
AccessLifetime == 1440
\* the step of the clock where days matter: half the life of an access token
LongTickStep == AccessLifetime \div 2

\* The three signing secrets (environment variables); the deployment gives
\* each token class its own secret.
JWT_SECRET == "JWT_SECRET"
JWT_VERIFY_SECRET == "JWT_VERIFY_SECRET"
JWT_RESET_SECRET == "JWT_RESET_SECRET"
\* a secret the server does not hold (a token forged by the caller)
FORGED_SECRET == "FORGED"

NoExp == -1
NoId == 0
NoRole == "none"
NoToken == [secret |-> "none", email |-> "none", id |-> NoId, role |-> NoRole,
            exp |-> NoExp]
NoUser == [id |-> NoId, role |-> NoRole, email |-> "none"]
\* no request is travelling through a middleware chain
NoReq == [stage |-> "none", token |-> NoToken, allowed |-> {}, user |-> NoUser,
          subject |-> NoId, role |-> NoRole]

----------------------------------------------------------------------------
(* Messages, as sequences of words *)

MsgEmailNotExist == <<"Email", "does", "not", "exist">>
MsgNotRegistered == <<"User", "has", "not", "been", "registered">>
MsgNotVerified == <<"User", "has", "not", "verified", "the", "email">>
MsgInvalidPassword == <<"Invalid", "password">>
MsgEmailExists == <<"Email", "already", "exists">>
MsgJwtExpired == <<"jwt", "expired">>
MsgJwtInvalid == <<"invalid", "signature">>
MsgUserCreated == <<"User", "created", "successfully">>
MsgResetSent == <<"Password", "reset", "email", "sent">>
MsgPasswordReset == <<"Password", "has", "been", "successfully", "reset">>
MsgEmailVerified == <<"Email", "has", "been", "successfully", "verified">>
MsgNoTokenProvided == <<"No", "token", "provided">>
MsgTokenExpired == <<"Token", "has", "expired">>
MsgInvalidToken == <<"Invalid", "token">>
MsgRoleNotFound == <<"User", "role", "not", "found">>
MsgAccessDenied == <<"Access", "denied:", "insufficient", "permissions">>
MsgInvalidOrExpired == <<"Invalid", "or", "expired", "token">>
MsgNoDocument == <<"No", "document", "to", "update">>
MsgUserNotExist == <<"User", "does", "not", "exist">>
MsgPostNotExist == <<"Post", "does", "not", "exist">>
MsgNoPostsFound == <<"No", "posts", "found", "for", "user">>
MsgUnauthorized == <<"Unauthorized">>
MsgNone == <<>>

\* String.prototype.toLowerCase, word by word
LowerWord(w) ==
  CASE w = "Email" -> "email"
    [] w = "User" -> "user"
    [] w = "Invalid" -> "invalid"
    [] w = "Password" -> "password"
    [] w = "No" -> "no"
    [] w = "Token" -> "token"
    [] OTHER -> w

ToLowerCase(msg) == [i \in DOMAIN msg |-> LowerWord(msg[i])]

\* String.prototype.includes
Includes(msg, pat) ==
  \E i \in 1..(Len(msg) - Len(pat) + 1) : SubSeq(msg, i, i + Len(pat) - 1) = pat

----------------------------------------------------------------------------
(* handleError: the status an Error with this message is reported with *)

HandleErrorStatus(msg) ==
  IF Includes(ToLowerCase(msg), <<"does", "not", "exist">>) THEN 404 ELSE 500

----------------------------------------------------------------------------
(* bcrypt *)

BcryptHash(p, salt) == <<"bcrypt", salt, p>>
BcryptCompare(p, h) == h[1] = "bcrypt" /\ h[3] = p

----------------------------------------------------------------------------
(* jsonwebtoken *)

JwtSign(email, id, role, secret, lifetime, now) ==
  [secret |-> secret, email |-> email, id |-> id, role |-> role,
   exp |-> IF lifetime = NoExp THEN NoExp ELSE now + lifetime]

\* Mutant of JwtVerify: the expiry is not enforced
JwtVerifyNoExpiry(tok, secret, now) ==
  IF tok.secret # secret THEN [ok |-> FALSE, msg |-> MsgJwtInvalid]
  ELSE [ok |-> TRUE, msg |-> MsgNone]

\* jwt.verify: the signature first, then the expiry
JwtVerify(tok, secret, now) ==
  IF tok.secret # secret THEN [ok |-> FALSE, msg |-> MsgJwtInvalid]
  ELSE IF tok.exp # NoExp /\ now >= tok.exp THEN [ok |-> FALSE, msg |-> MsgJwtExpired]
  ELSE [ok |-> TRUE, msg |-> MsgNone]

----------------------------------------------------------------------------
(* The store *)

\* db.collection('users').where('email', '==', email), on a given collection
FindIn(collection, email) == {u \in collection : u.email = email}
FindByEmail(email) == FindIn(users, email)

\* The tokens a caller can present: those mailed, the access token of the
\* latest successful login (the one the caller holds), and tokens signed with
\* a secret the server does not hold.
ForgedTokens ==
  {[secret |-> FORGED_SECRET, email |-> e, id |-> NoId, role |-> NoRole,
    exp |-> NoExp] : e \in Emails}

Presentable == {m.token : m \in outbox} \cup access \cup ForgedTokens

\* reqVerified, reqRole: the emailVerified and role keys of a register body;
\* delivered: whether the mail of the operation reached the recipient;
\* storeUp: whether the store answered the queries of the operation;
\* target: the id in the path of a request on the user or post resource
Response(op, status, msg, email, password, presented, token, lookup, user) ==
  [op |-> op, status |-> status, msg |-> msg, email |-> email,
   password |-> password, presented |-> presented, access_token |-> token,
   lookup |-> lookup, user |-> user, reqVerified |-> FALSE, reqRole |-> NoRole,
   delivered |-> TRUE, storeUp |-> TRUE, target |-> NoId]

----------------------------------------------------------------------------
Init ==
  /\ users = {}
  /\ nextId = 1
  /\ outbox = {}
  /\ access = {}
  /\ clock = 0
  /\ res = Response("none", 0, MsgNone, "none", "none", NoToken, NoToken, FALSE, NoUser)
  /\ req = NoReq
  /\ pending = {}
  /\ posts = {}

\* Time passes between requests.
Tick ==
  /\ clock + TickStep <= MaxClock
  /\ clock' = clock + TickStep
  /\ res' = Response("none", 0, MsgNone, "none", "none", NoToken, NoToken, FALSE, NoUser)
  /\ UNCHANGED <<users, nextId, outbox, access, req, pending, posts>>

\* The bodies a register request may carry: emailVerified as the client
\* chose it, and a role key or none
RegisterBodies ==
  [email : RaceEmails, password : RegisterPasswords, emailVerified : BOOLEAN,
   role : {NoRole, "admin"}]

\* The body of a client that sends the required keys alone
PlainBody(e, p) == [email |-> e, password |-> p, emailVerified |-> FALSE, role |-> NoRole]

\* Mutant of RegisterCreateSchema: unknown keys of the body pass through
RegisterCreateSchemaPassthrough(body) == body

\* RegisterCreateSchema.parse: the schema declares no role key, and zod drops
\* the keys a schema does not declare
RegisterCreateSchema(body) == [body EXCEPT !.role = NoRole]

\* Mutant of RegisterEntity: the emailVerified of the request is kept
RegisterEntityKeepVerified(user, salt) ==
  [user EXCEPT !.password = BcryptHash(user.password, salt)]

\* AuthRepositoryImpl.register: the password is replaced by its hash and
\* emailVerified is set to false before the entity is handed to the mapper
RegisterEntity(user, salt) ==
  [user EXCEPT !.password = BcryptHash(user.password, salt), !.emailVerified = FALSE]

\* AuthRegisterMapper.toModel: user.role ?? 'guest'
ToModel(user) == [user EXCEPT !.role = IF user.role = NoRole THEN "guest" ELSE user.role]

\* The document of a registration: the model's fields and the id written by
\* authRef.update({ id })
RegisterDocument(model, id) ==
  [id |-> id, email |-> model.email, password |-> model.password,
   emailVerified |-> model.emailVerified, role |-> model.role]

\* The verification mail of a registration; the token is signed by the
\* controller from the parsed email
VerificationMail(email) ==
  [to |-> email, subject |-> "verify",
   token |-> JwtSign(email, NoId, NoRole, JWT_VERIFY_SECRET, NoExp, clock)]

\* resend.emails.send is not awaited and its result is not read: a failed
\* dispatch leaves the outbox as it was and raises nothing
Dispatch(mail, delivered) == IF delivered THEN outbox \cup {mail} ELSE outbox

RegisterResponse(status, msg, body, delivered) ==
  [Response("register", status, msg, body.email, body.password, NoToken, NoToken,
            TRUE, NoUser)
     EXCEPT !.reqVerified = body.emailVerified, !.reqRole = body.role,
            !.delivered = delivered]

\* Mutant of Register: the existence check is missing
RegisterNoCheck(body, salt, delivered) ==
  LET user == RegisterCreateSchema(body)
      rec == RegisterDocument(ToModel(RegisterEntity(user, salt)), nextId)
  IN /\ users' = users \cup {rec}
     /\ nextId' = nextId + 1
     /\ outbox' = Dispatch(VerificationMail(user.email), delivered)
     /\ res' = RegisterResponse(200, MsgUserCreated, body, delivered)
     /\ UNCHANGED <<access, clock, req, pending, posts>>

\* registerUser -> AuthRepositoryImpl.register -> AuthApiDataSourceImpl.register,
\* a call that no other register call interleaves with
Register(body, salt, delivered) ==
  LET user == RegisterCreateSchema(body)
      rec == RegisterDocument(ToModel(RegisterEntity(user, salt)), nextId)
  IN IF FindByEmail(user.email) # {}
     THEN /\ res' = RegisterResponse(HandleErrorStatus(MsgEmailExists), MsgEmailExists,
                                     body, delivered)
          /\ UNCHANGED <<users, nextId, outbox, access, clock, req, pending, posts>>
     ELSE /\ users' = users \cup {rec}
          /\ nextId' = nextId + 1
          /\ outbox' = Dispatch(VerificationMail(user.email), delivered)
          /\ res' = RegisterResponse(200, MsgUserCreated, body, delivered)
          /\ UNCHANGED <<access, clock, req, pending, posts>>

\* Mutant of RegisterCheck: the verification mail is dispatched before the
\* insert is reached
RegisterCheckMailFirst(c, body, salt) ==
  LET user == RegisterCreateSchema(body)
      call == [caller |-> c, body |-> body, model |-> ToModel(RegisterEntity(user, salt))]
  IN /\ \A q \in pending : q.caller # c
     /\ IF FindByEmail(user.email) # {}
        THEN /\ res' = RegisterResponse(HandleErrorStatus(MsgEmailExists), MsgEmailExists,
                                        body, TRUE)
             /\ UNCHANGED <<users, nextId, outbox, access, clock, req, pending, posts>>
        ELSE /\ pending' = pending \cup {call}
             /\ outbox' = Dispatch(VerificationMail(user.email), TRUE)
             /\ res' = Response("registerCheck", 0, MsgNone, body.email, body.password,
                                NoToken, NoToken, TRUE, NoUser)
             /\ UNCHANGED <<users, nextId, access, clock, req, posts>>

\* AuthApiDataSourceImpl.register up to the await of the existence query: the
\* call of client c has hashed the password and found no record of the email,
\* and is suspended before the insert
RegisterCheck(c, body, salt) ==
  LET user == RegisterCreateSchema(body)
      call == [caller |-> c, body |-> body, model |-> ToModel(RegisterEntity(user, salt))]
  IN /\ \A q \in pending : q.caller # c
     /\ IF FindByEmail(user.email) # {}
        THEN /\ res' = RegisterResponse(HandleErrorStatus(MsgEmailExists), MsgEmailExists,
                                        body, TRUE)
             /\ UNCHANGED <<users, nextId, outbox, access, clock, req, pending, posts>>
        ELSE /\ pending' = pending \cup {call}
             /\ res' = Response("registerCheck", 0, MsgNone, body.email, body.password,
                                NoToken, NoToken, TRUE, NoUser)
             /\ UNCHANGED <<users, nextId, outbox, access, clock, req, posts>>

\* Mutant of RegisterInsert: the insert is an insert-if-absent
RegisterInsertIfAbsent(call, delivered) ==
  LET rec == RegisterDocument(call.model, nextId)
  IN /\ call \in pending
     /\ pending' = pending \ {call}
     /\ IF FindByEmail(call.model.email) # {}
        THEN /\ res' = RegisterResponse(HandleErrorStatus(MsgEmailExists), MsgEmailExists,
                                        call.body, delivered)
             /\ UNCHANGED <<users, nextId, outbox, access, clock, req, posts>>
        ELSE /\ users' = users \cup {rec}
             /\ nextId' = nextId + 1
             /\ outbox' = Dispatch(VerificationMail(call.model.email), delivered)
             /\ res' = RegisterResponse(200, MsgUserCreated, call.body, delivered)
             /\ UNCHANGED <<access, clock, req, posts>>

\* Mutant of RegisterInsert: the dispatch is awaited and its failure undoes
\* the registration
RegisterInsertSurfacing(call, delivered) ==
  LET rec == RegisterDocument(call.model, nextId)
  IN /\ call \in pending
     /\ pending' = pending \ {call}
     /\ IF ~delivered
        THEN /\ res' = RegisterResponse(500, MsgNone, call.body, delivered)
             /\ UNCHANGED <<users, nextId, outbox, access, clock, req, posts>>
        ELSE /\ users' = users \cup {rec}
             /\ nextId' = nextId + 1
             /\ outbox' = Dispatch(VerificationMail(call.model.email), delivered)
             /\ res' = RegisterResponse(200, MsgUserCreated, call.body, delivered)
             /\ UNCHANGED <<access, clock, req, posts>>

\* The rest of the suspended call: the insert, the id update, the dispatch of
\* the verification mail and the response
RegisterInsert(call, delivered) ==
  LET rec == RegisterDocument(call.model, nextId)
  IN /\ call \in pending
     /\ pending' = pending \ {call}
     /\ users' = users \cup {rec}
     /\ nextId' = nextId + 1
     /\ outbox' = Dispatch(VerificationMail(call.model.email), delivered)
     /\ res' = RegisterResponse(200, MsgUserCreated, call.body, delivered)
     /\ UNCHANGED <<access, clock, req, posts>>

\* A stored record without a password field (never written by register)
NoPassword == <<>>

\* Mutant of LoginError: the emailVerified check is missing
LoginErrorNoVerifiedCheck(u, p) ==
  IF u.password = NoPassword THEN MsgNotRegistered
  ELSE IF ~BcryptCompare(p, u.password) THEN MsgInvalidPassword
  ELSE MsgNone

\* AuthRepositoryImpl.login: the checks on the record found, in order
LoginError(u, p) ==
  IF u.password = NoPassword THEN MsgNotRegistered
  ELSE IF ~u.emailVerified THEN MsgNotVerified
  ELSE IF ~BcryptCompare(p, u.password) THEN MsgInvalidPassword
  ELSE MsgNone

\* Mutant of SignAccessToken: the payload carries the email alone
SignAccessTokenEmailOnly(u, now) ==
  JwtSign(u.email, NoId, NoRole, JWT_SECRET, AccessLifetime, now)

\* The access token the login use case returns for the authenticated record
SignAccessToken(u, now) == JwtSign(u.email, u.id, u.role, JWT_SECRET, AccessLifetime, now)

\* loginUser -> AuthRepositoryImpl.login -> AuthApiDataSourceImpl.login
Login(e, p) ==
  IF FindByEmail(e) = {}
  THEN /\ res' = Response("login", HandleErrorStatus(MsgEmailNotExist), MsgEmailNotExist,
                          e, p, NoToken, NoToken, TRUE, NoUser)
       /\ UNCHANGED <<users, nextId, outbox, access, clock, req, pending, posts>>
  ELSE \E u \in FindByEmail(e) :
         IF LoginError(u, p) # MsgNone
         THEN /\ res' = Response("login", HandleErrorStatus(LoginError(u, p)),
                                 LoginError(u, p), e, p, NoToken, NoToken, TRUE, NoUser)
              /\ UNCHANGED <<users, nextId, outbox, access, clock, req, pending, posts>>
         ELSE /\ access' = {SignAccessToken(u, clock)}
              /\ res' = Response("login", 200, MsgNone, e, p, NoToken,
                                 SignAccessToken(u, clock), TRUE, NoUser)
              /\ UNCHANGED <<users, nextId, outbox, clock, req, pending, posts>>

\* Mutant of ForgotPassword: the email is looked up and an unknown one refused
ForgotPasswordWithLookup(e, delivered) ==
  LET token == JwtSign(e, NoId, NoRole, JWT_RESET_SECRET, ResetLifetime, clock)
      mail == [to |-> e, subject |-> "reset", token |-> token]
  IN IF FindByEmail(e) = {}
     THEN /\ res' = Response("forgotPassword", HandleErrorStatus(MsgEmailNotExist),
                             MsgEmailNotExist, e, "none", NoToken, NoToken, TRUE, NoUser)
          /\ UNCHANGED <<users, nextId, outbox, access, clock, req, pending, posts>>
     ELSE /\ Cardinality({m \in outbox \cup {mail} : m.subject = "reset"}) <= MaxResets
          /\ outbox' = Dispatch(mail, delivered)
          /\ res' = [Response("forgotPassword", 200, MsgResetSent, e, "none", NoToken,
                              NoToken, TRUE, NoUser) EXCEPT !.delivered = delivered]
          /\ UNCHANGED <<users, nextId, access, clock, req, pending, posts>>

\* forgotPasswordUser -> AuthRepositoryImpl.forgotPassword -> sendResetEmail
ForgotPassword(e, delivered) ==
  LET token == JwtSign(e, NoId, NoRole, JWT_RESET_SECRET, ResetLifetime, clock)
      mail == [to |-> e, subject |-> "reset", token |-> token]
  IN /\ Cardinality({m \in outbox \cup {mail} : m.subject = "reset"}) <= MaxResets
     /\ outbox' = Dispatch(mail, delivered)
     /\ res' = [Response("forgotPassword", 200, MsgResetSent, e, "none", NoToken, NoToken,
                         FALSE, NoUser) EXCEPT !.delivered = delivered]
     /\ UNCHANGED <<users, nextId, access, clock, req, pending, posts>>

\* resetPasswordUser: the secret the reset token is verified with
ResetVerifySecret == JWT_RESET_SECRET

\* Mutant of ResetPassword: success is reported but the new hash is not stored
ResetPasswordNoWrite(tok, p, salt) ==
  LET decoded == JwtVerify(tok, ResetVerifySecret, clock)
  IN /\ res' =
          IF ~decoded.ok
          THEN Response("resetPassword", HandleErrorStatus(decoded.msg), decoded.msg,
                        "none", p, tok, NoToken, FALSE, NoUser)
          ELSE IF FindByEmail(tok.email) = {}
          THEN Response("resetPassword", HandleErrorStatus(MsgEmailNotExist),
                        MsgEmailNotExist, tok.email, p, tok, NoToken, TRUE, NoUser)
          ELSE Response("resetPassword", 200, MsgPasswordReset, tok.email, p, tok,
                        NoToken, TRUE, NoUser)
     /\ UNCHANGED <<users, nextId, outbox, access, clock, req, pending, posts>>

\* Mutant of ResetPassword: the check for a stored password is missing
ResetPasswordNoPasswordCheck(tok, p, salt) ==
  LET decoded == JwtVerify(tok, ResetVerifySecret, clock)
  IN IF ~decoded.ok
     THEN /\ res' = Response("resetPassword", HandleErrorStatus(decoded.msg), decoded.msg,
                             "none", p, tok, NoToken, FALSE, NoUser)
          /\ UNCHANGED <<users, nextId, outbox, access, clock, req, pending, posts>>
     ELSE IF FindByEmail(tok.email) = {}
     THEN /\ res' = Response("resetPassword", HandleErrorStatus(MsgEmailNotExist),
                             MsgEmailNotExist, tok.email, p, tok, NoToken, TRUE, NoUser)
          /\ UNCHANGED <<users, nextId, outbox, access, clock, req, pending, posts>>
     ELSE \E u \in FindByEmail(tok.email) :
            /\ users' = (users \ {u}) \cup {[u EXCEPT !.password = BcryptHash(p, salt)]}
            /\ res' = Response("resetPassword", 200, MsgPasswordReset, tok.email, p,
                               tok, NoToken, TRUE, NoUser)
            /\ UNCHANGED <<nextId, outbox, access, clock, req, pending, posts>>

\* Mutant of ResetPassword: a reset also marks the email as verified
ResetPasswordAlsoVerifies(tok, p, salt) ==
  LET decoded == JwtVerify(tok, ResetVerifySecret, clock)
  IN IF ~decoded.ok
     THEN /\ res' = Response("resetPassword", HandleErrorStatus(decoded.msg), decoded.msg,
                             "none", p, tok, NoToken, FALSE, NoUser)
          /\ UNCHANGED <<users, nextId, outbox, access, clock, req, pending, posts>>
     ELSE IF FindByEmail(tok.email) = {}
     THEN /\ res' = Response("resetPassword", HandleErrorStatus(MsgEmailNotExist),
                             MsgEmailNotExist, tok.email, p, tok, NoToken, TRUE, NoUser)
          /\ UNCHANGED <<users, nextId, outbox, access, clock, req, pending, posts>>
     ELSE \E u \in FindByEmail(tok.email) :
            IF u.password = NoPassword
            THEN /\ res' = Response("resetPassword", HandleErrorStatus(MsgNotRegistered),
                                    MsgNotRegistered, tok.email, p, tok, NoToken, TRUE, NoUser)
                 /\ UNCHANGED <<users, nextId, outbox, access, clock, req, pending, posts>>
            ELSE /\ users' = (users \ {u}) \cup {[u EXCEPT !.password = BcryptHash(p, salt),
                                                            !.emailVerified = TRUE]}
                 /\ res' = Response("resetPassword", 200, MsgPasswordReset, tok.email, p,
                                    tok, NoToken, TRUE, NoUser)
                 /\ UNCHANGED <<nextId, outbox, access, clock, req, pending, posts>>

\* Mutant of ResetPassword: an account that is not verified is refused
ResetPasswordVerifiedOnly(tok, p, salt) ==
  LET decoded == JwtVerify(tok, ResetVerifySecret, clock)
  IN IF ~decoded.ok
     THEN /\ res' = Response("resetPassword", HandleErrorStatus(decoded.msg), decoded.msg,
                             "none", p, tok, NoToken, FALSE, NoUser)
          /\ UNCHANGED <<users, nextId, outbox, access, clock, req, pending, posts>>
     ELSE IF FindByEmail(tok.email) = {}
     THEN /\ res' = Response("resetPassword", HandleErrorStatus(MsgEmailNotExist),
                             MsgEmailNotExist, tok.email, p, tok, NoToken, TRUE, NoUser)
          /\ UNCHANGED <<users, nextId, outbox, access, clock, req, pending, posts>>
     ELSE \E u \in FindByEmail(tok.email) :
            IF u.password = NoPassword
            THEN /\ res' = Response("resetPassword", HandleErrorStatus(MsgNotRegistered),
                                    MsgNotRegistered, tok.email, p, tok, NoToken, TRUE, NoUser)
                 /\ UNCHANGED <<users, nextId, outbox, access, clock, req, pending, posts>>
            ELSE IF ~u.emailVerified
            THEN /\ res' = Response("resetPassword", HandleErrorStatus(MsgNotVerified),
                                    MsgNotVerified, tok.email, p, tok, NoToken, TRUE, NoUser)
                 /\ UNCHANGED <<users, nextId, outbox, access, clock, req, pending, posts>>
            ELSE /\ users' = (users \ {u}) \cup {[u EXCEPT !.password = BcryptHash(p, salt)]}
                 /\ res' = Response("resetPassword", 200, MsgPasswordReset, tok.email, p,
                                    tok, NoToken, TRUE, NoUser)
                 /\ UNCHANGED <<nextId, outbox, access, clock, req, pending, posts>>

\* Mutant of ResetPassword: the hash is stored from the decoded payload before
\* the expiry of the token is reported
ResetPasswordWriteThenFail(tok, p, salt) ==
  LET decoded == JwtVerify(tok, ResetVerifySecret, clock)
  IN IF ~decoded.ok
     THEN /\ res' = Response("resetPassword", HandleErrorStatus(decoded.msg), decoded.msg,
                             "none", p, tok, NoToken, FALSE, NoUser)
          /\ users' = IF decoded.msg = MsgJwtExpired
                      THEN {IF u.email = tok.email /\ u.password # NoPassword
                            THEN [u EXCEPT !.password = BcryptHash(p, salt)] ELSE u
                            : u \in users}
                      ELSE users
          /\ UNCHANGED <<nextId, outbox, access, clock, req, pending, posts>>
     ELSE IF FindByEmail(tok.email) = {}
     THEN /\ res' = Response("resetPassword", HandleErrorStatus(MsgEmailNotExist),
                             MsgEmailNotExist, tok.email, p, tok, NoToken, TRUE, NoUser)
          /\ UNCHANGED <<users, nextId, outbox, access, clock, req, pending, posts>>
     ELSE \E u \in FindByEmail(tok.email) :
            IF u.password = NoPassword
            THEN /\ res' = Response("resetPassword", HandleErrorStatus(MsgNotRegistered),
                                    MsgNotRegistered, tok.email, p, tok, NoToken, TRUE, NoUser)
                 /\ UNCHANGED <<users, nextId, outbox, access, clock, req, pending, posts>>
            ELSE /\ users' = (users \ {u}) \cup {[u EXCEPT !.password = BcryptHash(p, salt)]}
                 /\ res' = Response("resetPassword", 200, MsgPasswordReset, tok.email, p,
                                    tok, NoToken, TRUE, NoUser)
                 /\ UNCHANGED <<nextId, outbox, access, clock, req, pending, posts>>

\* resetPasswordUser -> AuthRepositoryImpl.resetPassword -> searchUserByEmail
ResetPassword(tok, p, salt) ==
  LET decoded == JwtVerify(tok, ResetVerifySecret, clock)
  IN IF ~decoded.ok
     THEN /\ res' = Response("resetPassword", HandleErrorStatus(decoded.msg), decoded.msg,
                             "none", p, tok, NoToken, FALSE, NoUser)
          /\ UNCHANGED <<users, nextId, outbox, access, clock, req, pending, posts>>
     ELSE IF FindByEmail(tok.email) = {}
     THEN /\ res' = Response("resetPassword", HandleErrorStatus(MsgEmailNotExist),
                             MsgEmailNotExist, tok.email, p, tok, NoToken, TRUE, NoUser)
          /\ UNCHANGED <<users, nextId, outbox, access, clock, req, pending, posts>>
     ELSE \E u \in FindByEmail(tok.email) :
            IF u.password = NoPassword
            THEN /\ res' = Response("resetPassword", HandleErrorStatus(MsgNotRegistered),
                                    MsgNotRegistered, tok.email, p, tok, NoToken, TRUE, NoUser)
                 /\ UNCHANGED <<users, nextId, outbox, access, clock, req, pending, posts>>
            ELSE /\ users' = (users \ {u}) \cup {[u EXCEPT !.password = BcryptHash(p, salt)]}
                 /\ res' = Response("resetPassword", 200, MsgPasswordReset, tok.email, p,
                                    tok, NoToken, TRUE, NoUser)
                 /\ UNCHANGED <<nextId, outbox, access, clock, req, pending, posts>>

\* verifyEmailUser: the secret the verification token is verified with
VerifyEmailSecret == JWT_RESET_SECRET

\* verifyEmailUser -> AuthRepositoryImpl.verifyEmail -> searchUserByEmail
VerifyEmail(tok) ==
  LET decoded == JwtVerify(tok, VerifyEmailSecret, clock)
  IN IF ~decoded.ok
     THEN /\ res' = Response("verifyEmail", HandleErrorStatus(decoded.msg), decoded.msg,
                             "none", "none", tok, NoToken, FALSE, NoUser)
          /\ UNCHANGED <<users, nextId, outbox, access, clock, req, pending, posts>>
     ELSE IF FindByEmail(tok.email) = {}
     THEN /\ res' = Response("verifyEmail", HandleErrorStatus(MsgEmailNotExist),
                             MsgEmailNotExist, tok.email, "none", tok, NoToken, TRUE, NoUser)
          /\ UNCHANGED <<users, nextId, outbox, access, clock, req, pending, posts>>
     ELSE \E u \in FindByEmail(tok.email) :
            /\ users' = (users \ {u}) \cup {[u EXCEPT !.emailVerified = TRUE]}
            /\ res' = Response("verifyEmail", 200, MsgEmailVerified, tok.email, "none",
                               tok, NoToken, TRUE, NoUser)
            /\ UNCHANGED <<nextId, outbox, access, clock, req, pending, posts>>

\* authMiddleware: the secret the bearer token is verified with
AuthSecret == JWT_SECRET

\* Mutant of AuthMiddlewareResponse: the decoded identity is not attached
AuthMiddlewareNoIdentity(tok) ==
  LET decoded == JwtVerify(tok, AuthSecret, clock)
  IN IF tok = NoToken
     THEN Response("auth", 401, MsgNoTokenProvided, "none", "none", tok, NoToken,
                   FALSE, NoUser)
     ELSE IF decoded.ok
     THEN Response("auth", 0, MsgNone, "none", "none", tok, NoToken, FALSE, NoUser)
     ELSE IF decoded.msg = MsgJwtExpired
     THEN Response("auth", 401, MsgTokenExpired, "none", "none", tok, NoToken,
                   FALSE, NoUser)
     ELSE Response("auth", 401, MsgInvalidToken, "none", "none", tok, NoToken,
                   FALSE, NoUser)

\* authMiddleware: tok = NoToken is a request without a bearer token; status 0
\* is next(), with req.user set
AuthMiddlewareResponse(tok) ==
  LET decoded == JwtVerify(tok, AuthSecret, clock)
  IN IF tok = NoToken
     THEN Response("auth", 401, MsgNoTokenProvided, "none", "none", tok, NoToken,
                   FALSE, NoUser)
     ELSE IF decoded.ok
     THEN Response("auth", 0, MsgNone, "none", "none", tok, NoToken, FALSE,
                   [id |-> tok.id, role |-> tok.role, email |-> tok.email])
     ELSE IF decoded.msg = MsgJwtExpired
     THEN Response("auth", 401, MsgTokenExpired, "none", "none", tok, NoToken,
                   FALSE, NoUser)
     ELSE Response("auth", 401, MsgInvalidToken, "none", "none", tok, NoToken,
                   FALSE, NoUser)

\* authMiddleware on a route whose handler does not touch the users collection
AuthMiddleware(tok) ==
  /\ res' = AuthMiddlewareResponse(tok)
  /\ UNCHANGED <<users, nextId, outbox, access, clock, req, pending, posts>>

----------------------------------------------------------------------------
(* The role middleware and the protected routes *)

\* the Role type
Roles == {"admin", "guest"}
\* the allow-lists a route may pass to checkRoleMiddleware
AllowLists == {{"guest"}, {"admin"}}

\* db.collection('users').doc(id).get()
UserGetById(id) == {u \in users : u.id = id}

\* The role of the entity getByIdUserUseCase returns for a stored record
EntityRole(u) == u.role

\* Mutant of ResolvedRole: the role embedded in the token is trusted
ResolvedRoleFromToken(decoded, u) == decoded.role

\* checkRoleMiddleware: const { role } = await userGetByIdSvc(decoded.id)
ResolvedRole(decoded, u) == EntityRole(u)

\* Mutant of CheckRoleDecision: admin is held to the allow-list like any role
CheckRoleDecisionNoBypass(role, allowedRoles) ==
  IF role = NoRole THEN [status |-> 403, msg |-> MsgRoleNotFound]
  ELSE IF role \notin allowedRoles THEN [status |-> 403, msg |-> MsgAccessDenied]
  ELSE [status |-> 0, msg |-> MsgNone]

\* checkRoleMiddleware: the decision on the resolved role; status 0 is next()
CheckRoleDecision(role, allowedRoles) ==
  IF role = NoRole THEN [status |-> 403, msg |-> MsgRoleNotFound]
  ELSE IF role = "admin" THEN [status |-> 0, msg |-> MsgNone]
  ELSE IF role \notin allowedRoles THEN [status |-> 403, msg |-> MsgAccessDenied]
  ELSE [status |-> 0, msg |-> MsgNone]

\* A request enters a protected route: authMiddleware runs on its bearer token
RouteAuth(tok, allowedRoles) ==
  /\ req.stage \in {"none", "refused", "handled"}
  /\ res' = AuthMiddlewareResponse(tok)
  /\ req' = [stage |-> IF res'.status = 0 THEN "authenticated" ELSE "refused",
             token |-> tok, allowed |-> allowedRoles, user |-> res'.user,
             subject |-> NoId, role |-> NoRole]
  /\ UNCHANGED <<users, nextId, outbox, access, clock, pending, posts>>

\* Mutant of RouteCheckRole: the route runs the role check without waiting
\* for authMiddleware to call next()
RouteCheckRoleUnordered(storeUp) ==
  LET tok == req.token
      decoded == JwtVerify(tok, AuthSecret, clock)
  IN /\ req.stage \in {"authenticated", "refused"}
     /\ req.token # NoToken
     /\ decoded.ok
     /\ \E u \in UserGetById(tok.id) :
          LET d == CheckRoleDecision(ResolvedRole(tok, u), req.allowed)
          IN /\ res' = Response("checkRole", d.status, d.msg, "none", "none", tok,
                                NoToken, TRUE, req.user)
             /\ req' = [req EXCEPT !.stage = IF d.status = 0 THEN "authorized"
                                                              ELSE "refused",
                                   !.subject = tok.id,
                                   !.role = ResolvedRole(tok, u)]
     /\ UNCHANGED <<users, nextId, outbox, access, clock, pending, posts>>

\* Mutant of RouteCheckRole: when no record of the decoded id is found the
\* role in the token decides
RouteCheckRoleTokenFallback(storeUp) ==
  LET tok == req.token
      decoded == JwtVerify(tok, AuthSecret, clock)
      role == IF UserGetById(tok.id) = {} THEN tok.role
              ELSE ResolvedRole(tok, CHOOSE u \in UserGetById(tok.id) : TRUE)
      d == CheckRoleDecision(role, req.allowed)
  IN /\ req.stage = "authenticated"
     /\ IF tok = NoToken
        THEN /\ res' = Response("checkRole", 401, MsgNoTokenProvided, "none", "none",
                                tok, NoToken, FALSE, req.user)
             /\ req' = [req EXCEPT !.stage = "refused"]
        ELSE IF decoded.ok /\ ~storeUp
        THEN /\ res' = [Response("checkRole", 401, MsgInvalidOrExpired, "none", "none",
                                 tok, NoToken, FALSE, req.user)
                          EXCEPT !.storeUp = FALSE]
             /\ req' = [req EXCEPT !.stage = "refused", !.subject = tok.id]
        ELSE IF ~decoded.ok
        THEN /\ res' = Response("checkRole", 401, MsgInvalidOrExpired, "none", "none",
                                tok, NoToken, FALSE, req.user)
             /\ req' = [req EXCEPT !.stage = "refused"]
        ELSE /\ res' = Response("checkRole", d.status, d.msg, "none", "none", tok,
                                NoToken, TRUE, req.user)
             /\ req' = [req EXCEPT !.stage = IF d.status = 0 THEN "authorized"
                                                              ELSE "refused",
                                   !.subject = tok.id,
                                   !.role = role]
     /\ UNCHANGED <<users, nextId, outbox, access, clock, pending, posts>>

\* checkRoleMiddleware, reached through next() of authMiddleware: it reads the
\* bearer token of the same request again, verifies it, looks the user up by
\* the decoded id and decides on the role of the record; whatever is thrown
\* on the way, a failure of the store (storeUp = FALSE) included, is answered
\* 401 "Invalid or expired token"
RouteCheckRole(storeUp) ==
  LET tok == req.token
      decoded == JwtVerify(tok, AuthSecret, clock)
  IN /\ req.stage = "authenticated"
     /\ IF tok = NoToken
        THEN /\ res' = Response("checkRole", 401, MsgNoTokenProvided, "none", "none",
                                tok, NoToken, FALSE, req.user)
             /\ req' = [req EXCEPT !.stage = "refused"]
        ELSE IF decoded.ok /\ ~storeUp
        THEN /\ res' = [Response("checkRole", 401, MsgInvalidOrExpired, "none", "none",
                                 tok, NoToken, FALSE, req.user)
                          EXCEPT !.storeUp = FALSE]
             /\ req' = [req EXCEPT !.stage = "refused", !.subject = tok.id]
        ELSE IF ~decoded.ok \/ UserGetById(tok.id) = {}
        THEN /\ res' = Response("checkRole", 401, MsgInvalidOrExpired, "none", "none",
                                tok, NoToken, decoded.ok, req.user)
             /\ req' = [req EXCEPT !.stage = "refused",
                                   !.subject = IF decoded.ok THEN tok.id ELSE NoId]
        ELSE \E u \in UserGetById(tok.id) :
               LET d == CheckRoleDecision(ResolvedRole(tok, u), req.allowed)
               IN /\ res' = Response("checkRole", d.status, d.msg, "none", "none", tok,
                                     NoToken, TRUE, req.user)
                  /\ req' = [req EXCEPT !.stage = IF d.status = 0 THEN "authorized"
                                                                   ELSE "refused",
                                        !.subject = tok.id,
                                        !.role = ResolvedRole(tok, u)]
     /\ UNCHANGED <<users, nextId, outbox, access, clock, pending, posts>>

\* The route handler, reached through next() of checkRoleMiddleware
RouteHandler ==
  /\ req.stage = "authorized"
  /\ res' = Response("handler", 200, MsgNone, "none", "none", req.token, NoToken,
                     FALSE, req.user)
  /\ req' = [req EXCEPT !.stage = "handled"]
  /\ UNCHANGED <<users, nextId, outbox, access, clock, pending, posts>>

\* updateUser behind authMiddleware: the document is overwritten with the
\* fields of the body; the client sends the document back as it read it, with
\* the role it chose
UpdateUser(tok, id, role) ==
  LET auth == AuthMiddlewareResponse(tok)
  IN IF auth.status # 0
     THEN /\ res' = [auth EXCEPT !.op = "updateUser"]
          /\ UNCHANGED <<users, nextId, outbox, access, clock, req, pending, posts>>
     ELSE IF UserGetById(id) = {}
     THEN /\ res' = Response("updateUser", HandleErrorStatus(MsgNoDocument),
                             MsgNoDocument, "none", "none", tok, NoToken, TRUE, auth.user)
          /\ UNCHANGED <<users, nextId, outbox, access, clock, req, pending, posts>>
     ELSE \E u \in UserGetById(id) :
            /\ users' = (users \ {u}) \cup {[u EXCEPT !.role = role]}
            /\ res' = Response("updateUser", 200, MsgNone, u.email, "none", tok,
                               NoToken, TRUE, auth.user)
            /\ UNCHANGED <<nextId, outbox, access, clock, req, pending, posts>>

\* The document createUser stores: the fields of the body and the id written
\* by userRef.update({ id }); the user resource knows no password
UserDocument(id, email, role, emailVerified) ==
  [id |-> id, email |-> email, password |-> NoPassword,
   emailVerified |-> emailVerified, role |-> role]

\* createUser behind authMiddleware: the document is added without any query
\* for its email
CreateUser(tok, e, role, emailVerified) ==
  LET auth == AuthMiddlewareResponse(tok)
  IN IF auth.status # 0
     THEN /\ res' = [auth EXCEPT !.op = "createUser"]
          /\ UNCHANGED <<users, nextId, outbox, access, clock, req, pending, posts>>
     ELSE /\ users' = users \cup {UserDocument(nextId, e, role, emailVerified)}
          /\ nextId' = nextId + 1
          /\ res' = Response("createUser", 200, MsgNone, e, "none", tok, NoToken,
                             FALSE, auth.user)
          /\ UNCHANGED <<outbox, access, clock, req, pending, posts>>

\* PostApiDataSource.getByUser: the posts whose idUser is the id
PostsByUser(id) == {post \in posts : post.idUser = id}

\* deleteUser behind authMiddleware: the document of the id is removed, or
\* 'User "<id>" does not exist' is thrown when there is none; after the user
\* is removed the posts of the id are deleted, and 'No posts found for user
\* <id>' is thrown when there are none
DeleteUser(tok, id) ==
  LET auth == AuthMiddlewareResponse(tok)
  IN IF auth.status # 0
     THEN /\ res' = [auth EXCEPT !.op = "deleteUser", !.target = id]
          /\ UNCHANGED <<users, nextId, outbox, access, clock, req, pending, posts>>
     ELSE IF UserGetById(id) = {}
     THEN /\ res' = [Response("deleteUser", HandleErrorStatus(MsgUserNotExist),
                              MsgUserNotExist, "none", "none", tok, NoToken, TRUE, auth.user)
                       EXCEPT !.target = id]
          /\ UNCHANGED <<users, nextId, outbox, access, clock, req, pending, posts>>
     ELSE /\ users' = users \ UserGetById(id)
          /\ IF PostsByUser(id) = {}
             THEN /\ res' = [Response("deleteUser", HandleErrorStatus(MsgNoPostsFound),
                                      MsgNoPostsFound, "none", "none", tok, NoToken, TRUE,
                                      auth.user) EXCEPT !.target = id]
                  /\ UNCHANGED posts
             ELSE /\ posts' = posts \ PostsByUser(id)
                  /\ res' = [Response("deleteUser", 200, MsgNone, "none", "none", tok,
                                      NoToken, TRUE, auth.user) EXCEPT !.target = id]
          /\ UNCHANGED <<nextId, outbox, access, clock, req, pending>>

\* the titles a post body may carry
Titles == {"t0", "t1"}

\* PostRepositoryImpl.update and delete: the caller is the owner of the post
\* or the token it presents says admin
PostCallerAllowed(decoded, idUser) == ~(decoded.id # idUser /\ decoded.role # "admin")

\* postRoutes: checkRoleMiddleware(['guest']) on every route of the resource
PostRouteRoles == {"guest"}

\* The response of a post handler
PostResponse(op, status, msg, id) ==
  [Response(op, status, msg, "none", "none", req.token, NoToken, TRUE, req.user)
     EXCEPT !.target = id]

\* updatePost, reached through next() of checkRoleMiddleware(['guest']):
\* PostRepositoryImpl.update verifies the token of req.user, reads the post
\* and overwrites it with the body when the caller is allowed
UpdatePost(id, title) ==
  LET tok == req.token
      decoded == JwtVerify(tok, AuthSecret, clock)
      found == {post \in posts : post.id = id}
  IN /\ req.stage = "authorized"
     /\ req.allowed = PostRouteRoles
     /\ req' = [req EXCEPT !.stage = "handled"]
     /\ IF ~decoded.ok
        THEN /\ res' = PostResponse("updatePost", HandleErrorStatus(decoded.msg),
                                    decoded.msg, id)
             /\ UNCHANGED posts
        ELSE IF found = {}
        THEN /\ res' = PostResponse("updatePost", HandleErrorStatus(MsgPostNotExist),
                                    MsgPostNotExist, id)
             /\ UNCHANGED posts
        ELSE \E post \in found :
               IF ~PostCallerAllowed(tok, post.idUser)
               THEN /\ res' = PostResponse("updatePost", HandleErrorStatus(MsgUnauthorized),
                                           MsgUnauthorized, id)
                    /\ UNCHANGED posts
               ELSE /\ posts' = (posts \ {post}) \cup {[post EXCEPT !.title = title]}
                    /\ res' = PostResponse("updatePost", 200, MsgNone, id)
     /\ UNCHANGED <<users, nextId, outbox, access, clock, pending>>

\* deletePost, reached through next() of checkRoleMiddleware(['guest']):
\* PostRepositoryImpl.delete verifies the token of req.user, reads the post
\* and deletes it when the caller is allowed
DeletePost(id) ==
  LET tok == req.token
      decoded == JwtVerify(tok, AuthSecret, clock)
      found == {post \in posts : post.id = id}
  IN /\ req.stage = "authorized"
     /\ req.allowed = PostRouteRoles
     /\ req' = [req EXCEPT !.stage = "handled"]
     /\ IF ~decoded.ok
        THEN /\ res' = PostResponse("deletePost", HandleErrorStatus(decoded.msg),
                                    decoded.msg, id)
             /\ UNCHANGED posts
        ELSE IF found = {}
        THEN /\ res' = PostResponse("deletePost", HandleErrorStatus(MsgPostNotExist),
                                    MsgPostNotExist, id)
             /\ UNCHANGED posts
        ELSE \E post \in found :
               IF ~PostCallerAllowed(tok, post.idUser)
               THEN /\ res' = PostResponse("deletePost", HandleErrorStatus(MsgUnauthorized),
                                           MsgUnauthorized, id)
                    /\ UNCHANGED posts
               ELSE /\ posts' = posts \ {post}
                    /\ res' = PostResponse("deletePost", 200, MsgNone, id)
     /\ UNCHANGED <<users, nextId, outbox, access, clock, pending>>

\* Half the lifetime of an access token passes between requests.
LongTick ==
  /\ clock + LongTickStep <= MaxTicks * LongTickStep
  /\ clock' = clock + LongTickStep
  /\ res' = Response("none", 0, MsgNone, "none", "none", NoToken, NoToken, FALSE, NoUser)
  /\ UNCHANGED <<users, nextId, outbox, access, req, pending, posts>>

\* The users collection as a server finds it when it starts: two verified
\* accounts registered earlier, one of them by a release whose register model
\* wrote no role field
SeededUsers ==
  {[id |-> 1, email |-> "a@x.com", password |-> BcryptHash(SeedPassword, "salt1"),
    emailVerified |-> TRUE, role |-> "guest"],
   [id |-> 2, email |-> "b@x.com", password |-> BcryptHash(SeedPassword, "salt1"),
    emailVerified |-> TRUE, role |-> NoRole]}

\* The posts collection as the server finds it: one post, written by the
\* second account
SeededPosts == {[id |-> 1, idUser |-> 2, title |-> "t0"]}

InitSeeded ==
  /\ users = SeededUsers
  /\ nextId = Cardinality(SeededUsers) + 1
  /\ outbox = {}
  /\ access = {}
  /\ clock = 0
  /\ res = Response("none", 0, MsgNone, "none", "none", NoToken, NoToken, FALSE, NoUser)
  /\ req = NoReq
  /\ pending = {}
  /\ posts = SeededPosts

Next ==
  \/ Tick
  \/ \E e \in Emails, p \in RegisterPasswords, s \in Salts :
       Register(PlainBody(e, p), s, TRUE)
  \/ \E e \in Emails, p \in Passwords : Login(e, p)
  \/ \E e \in Emails : ForgotPassword(e, TRUE)
  \/ \E tok \in Presentable, p \in Passwords, s \in Salts : ResetPassword(tok, p, s)
  \/ \E tok \in Presentable : VerifyEmail(tok)
  \/ \E tok \in Presentable \cup {NoToken} : AuthMiddleware(tok)

Spec == Init /\ [][Next]_vars

\* Registration and password recovery with every request body, with a mail
\* gateway that may fail, and with register calls of several clients that
\* interleave at the await between the existence query and the insert
NextRegister ==
  \/ \E c \in Callers, body \in RegisterBodies, s \in Salts : RegisterCheck(c, body, s)
  \/ \E call \in pending, delivered \in BOOLEAN : RegisterInsert(call, delivered)
  \/ \E e \in Emails, delivered \in BOOLEAN : ForgotPassword(e, delivered)

SpecRegister == Init /\ [][NextRegister]_vars

\* The protected routes: logins, role changes through the user resource and
\* requests that travel through authMiddleware, checkRoleMiddleware and the
\* handler, over days
NextRoute ==
  \/ LongTick
  \/ \E e \in Emails : Login(e, SeedPassword)
  \/ \E tok \in access, id \in 1..nextId, role \in Roles : UpdateUser(tok, id, role)
  \/ \E tok \in access \cup ForgedTokens \cup {NoToken}, allowedRoles \in AllowLists :
       RouteAuth(tok, allowedRoles)
  \/ RouteCheckRole(TRUE)
  \/ RouteHandler

SpecRoute == InitSeeded /\ [][NextRoute]_vars

\* The user resource next to the auth flows: a logged-in caller creates and
\* deletes user documents while accounts of the same email register, recover
\* their password, verify and log in
NextCrud ==
  \/ \E e \in Emails \cup CrudEmails : Login(e, SeedPassword)
  \/ \E tok \in access, e \in CrudEmails, role \in Roles, ev \in BOOLEAN :
       nextId <= MaxUserId /\ CreateUser(tok, e, role, ev)
  \/ \E tok \in access, id \in 1..nextId : DeleteUser(tok, id)
  \/ \E e \in CrudEmails, s \in Salts :
       nextId <= MaxUserId /\ Register(PlainBody(e, SeedPassword), s, TRUE)
  \/ \E e \in CrudEmails : ForgotPassword(e, TRUE)
  \/ \E tok \in Presentable, p \in Passwords, s \in Salts : ResetPassword(tok, p, s)
  \/ \E tok \in Presentable : VerifyEmail(tok)

SpecCrud == InitSeeded /\ [][NextCrud]_vars

\* the ids in the path of a request on the post resource
PostIds == {1}

\* The post resource behind authMiddleware and checkRoleMiddleware, next to
\* logins, role changes and deletions through the user resource, over a store
\* that may fail to answer the role check
NextPosts ==
  \/ \E e \in Emails : Login(e, SeedPassword)
  \/ \E tok \in access, id \in 1..Cardinality(SeededUsers), role \in Roles :
       UpdateUser(tok, id, role)
  \/ \E tok \in access, id \in 1..Cardinality(SeededUsers) : DeleteUser(tok, id)
  \/ \E tok \in access, allowedRoles \in AllowLists : RouteAuth(tok, allowedRoles)
  \/ \E storeUp \in BOOLEAN : RouteCheckRole(storeUp)
  \/ \E id \in PostIds, title \in Titles : UpdatePost(id, title)
  \/ \E id \in PostIds : DeletePost(id)
  \/ RouteHandler

SpecPosts == InitSeeded /\ [][NextPosts]_vars

----------------------------------------------------------------------------
(* Properties *)

\* The tokens mailed with a given subject ("verify" or "reset")
MailedTokens(subject) == {m.token : m \in {x \in outbox : x.subject = subject}}

\* A response that refuses the presented token
TokenRejected(r) ==
  r.msg \in {MsgJwtInvalid, MsgJwtExpired, MsgInvalidToken, MsgTokenExpired}

\* C1: a login on a record whose emailVerified is false fails with "User has
\* not verified the email" and returns no access token, whatever the password;
\* and no access token is ever held for a record that is not verified.
C1_NoLoginBeforeVerification ==
  /\ res.op = "login" =>
       \A u \in FindByEmail(res.email) :
         ~u.emailVerified =>
           /\ res.msg = MsgNotVerified
           /\ res.status # 200
           /\ res.access_token = NoToken
  /\ \A t \in access : \E u \in users : u.id = t.id /\ u.emailVerified

C1_Witness ==
  /\ res.op = "login"
  /\ res.msg = MsgNotVerified
  /\ \E u \in FindByEmail(res.email) :
       ~u.emailVerified /\ BcryptCompare(res.password, u.password)

\* C2: no token is accepted across classes: verifyEmail refuses every token not
\* signed with the verification secret, resetPassword every token not signed
\* with the reset secret, the authentication check every token not signed with
\* the access secret.
C2_TokenClassIsolation ==
  /\ (res.op = "verifyEmail" /\ res.presented.secret # JWT_VERIFY_SECRET)
       => TokenRejected(res)
  /\ (res.op = "resetPassword" /\ res.presented.secret # JWT_RESET_SECRET)
       => TokenRejected(res)
  /\ (res.op = "auth" /\ res.presented # NoToken /\ res.presented.secret # JWT_SECRET)
       => TokenRejected(res) /\ res.user = NoUser

\* C3: happy path: verifyEmail with the verification token that register mailed
\* succeeds for the registered account and leaves it verified, and a login on
\* a verified account with its password returns an access token that the
\* authentication check accepts.
C3_HappyPath ==
  /\ (/\ res.op = "verifyEmail"
      /\ res.presented \in MailedTokens("verify")
      /\ FindByEmail(res.presented.email) # {})
       => /\ res.status = 200
          /\ \A u \in FindByEmail(res.presented.email) : u.emailVerified
  /\ (/\ res.op = "login"
      /\ \E u \in FindByEmail(res.email) :
           u.emailVerified /\ BcryptCompare(res.password, u.password))
       => /\ res.status = 200
          /\ JwtVerify(res.access_token, AuthSecret, clock).ok

C5_VerifyEmailIdempotent ==
  [][(/\ res'.op = "verifyEmail"
      /\ res'.presented \in MailedTokens("verify")
      /\ FindByEmail(res'.presented.email) # {})
       => /\ res'.status = 200
          /\ \A u \in FindIn(users', res'.presented.email) : u.emailVerified
          /\ (\A u \in FindByEmail(res'.presented.email) : u.emailVerified)
               => users' = users]_vars

C7_ResetScenario ==
  /\ [][(res'.op = "resetPassword" /\ res'.status = 200)
          => /\ FindIn(users', res'.email) # {}
             /\ \A u \in FindIn(users', res'.email) :
                  BcryptCompare(res'.password, u.password)]_vars
  /\ [](res.op = "login" =>
          \A u \in FindByEmail(res.email) :
            u.emailVerified =>
              IF BcryptCompare(res.password, u.password)
              THEN res.status = 200 /\ res.access_token # NoToken
              ELSE res.msg = MsgInvalidPassword /\ res.access_token = NoToken)

C7_Witness ==
  /\ res.op = "login"
  /\ res.password = "Pw123456"
  /\ res.msg = MsgInvalidPassword
  /\ \E u \in FindByEmail(res.email) :
       u.emailVerified /\ BcryptCompare("NewPw123456", u.password)
  /\ \E t \in MailedTokens("reset") : t.email = res.email

\* C8: a reset token presented to resetPassword more than 15 minutes after it
\* was issued is refused with "jwt expired" and no record changes; presented
\* less than 15 minutes after it was issued it passes the token verification.
C8_ResetTokenExpiry ==
  [][(res'.op = "resetPassword" /\ res'.presented \in MailedTokens("reset"))
       => LET issuedAt == res'.presented.exp - ResetLifetime
          IN /\ (clock - issuedAt > ResetLifetime)
                  => res'.msg = MsgJwtExpired /\ users' = users
             /\ (clock - issuedAt < ResetLifetime)
                  => ~TokenRejected(res')]_vars

C8_Witness ==
  /\ res.op = "resetPassword"
  /\ res.msg = MsgJwtExpired
  /\ res.presented \in MailedTokens("reset")
  /\ clock - (res.presented.exp - ResetLifetime) > ResetLifetime
  /\ FindByEmail(res.presented.email) # {}

\* C9: register with an email that belongs to a stored record fails with
\* "Email already exists" reported with status 409, inserts no record, changes
\* none and sends no verification mail.
C9_DuplicateEmailConflict ==
  [][(res'.op = "register" /\ FindByEmail(res'.email) # {})
       => /\ res'.msg = MsgEmailExists
          /\ res'.status = 409
          /\ users' = users
          /\ outbox' = outbox]_vars

\* C10: a wrong password, an unverified account and a bad or lapsed token are
\* each reported with status 401, never with a 5xx status.
C10_AuthFailuresAre401 ==
  (/\ res.op \in {"login", "resetPassword", "verifyEmail"}
   /\ res.msg \in {MsgInvalidPassword, MsgNotVerified, MsgJwtInvalid, MsgJwtExpired})
    => res.status = 401

\* A step that completes a register call suspended at the existence query
RegisterCompletes == res'.op = "register" /\ pending' # pending

\* C15: every record that register stores has emailVerified = false, whatever
\* emailVerified the request body carried, and has the role guest when the
\* body carried no role.
C15_RegisterDefaults ==
  [][(RegisterCompletes /\ res'.status = 200)
       => /\ Cardinality(users' \ users) = 1
          /\ \A u \in users' \ users :
               /\ u.email = res'.email
               /\ ~u.emailVerified
               /\ (res'.reqRole = NoRole => u.role = "guest")]_vars

C15_Witness ==
  /\ res.op = "register"
  /\ res.status = 200
  /\ res.reqVerified
  /\ res.reqRole = NoRole
  /\ \E u \in FindByEmail(res.email) : ~u.emailVerified /\ u.role = "guest"

C17_EmailUnique ==
  \A u \in users : \A v \in users : u.email = v.email => u = v

C17_Witness ==
  /\ res.op = "register"
  /\ res.msg = MsgEmailExists
  /\ Cardinality(users) = Cardinality(Emails)

\* C18: nothing between the existence query and the insert of a register call
\* is locked: every call that passed the query inserts its record and answers
\* 200, also when another call has stored a record of the same email in the
\* meantime, so two calls that both passed the query leave two records with
\* one email.
C18_RegistrationRace ==
  [][RegisterCompletes
       => /\ res'.status = 200
          /\ Cardinality(FindIn(users', res'.email)) =
               Cardinality(FindByEmail(res'.email)) + 1]_vars

C18_Witness ==
  /\ res.op = "register"
  /\ res.status = 200
  /\ pending = {}
  /\ \E u \in users : \E v \in users : u # v /\ u.email = v.email

\* A step in which the role check decides for a request whose bearer token
\* verifies and whose user record is stored
RoleCheckDecides ==
  /\ res'.op = "checkRole"
  /\ JwtVerify(req.token, AuthSecret, clock).ok
  /\ UserGetById(req.token.id) # {}

\* The role check lets the request through to the handler
Allowed(r) == r.stage = "authorized"
\* The role check answers 403
Forbidden(response, r) == response.status = 403 /\ r.stage = "refused"

\* C11: for a caller with a valid access token whose record is stored, the role
\* check refuses with 403 "User role not found" when the record has no role,
\* lets an admin through whatever the allow-list, and otherwise lets the
\* request through exactly when the role is in the allow-list and refuses it
\* with 403 when it is not.
C11_RoleCheckDecision ==
  [][RoleCheckDecides =>
       \A u \in UserGetById(req.token.id) :
         /\ u.role = NoRole
              => Forbidden(res', req') /\ res'.msg = MsgRoleNotFound
         /\ u.role = "admin" => Allowed(req')
         /\ u.role \notin {NoRole, "admin"}
              => /\ Allowed(req') <=> u.role \in req.allowed
                 /\ u.role \notin req.allowed => Forbidden(res', req')]_vars

C11_Witness ==
  /\ res.op = "checkRole"
  /\ req.stage = "authorized"
  /\ req.role = "admin"
  /\ "admin" \notin req.allowed
  /\ \E u \in UserGetById(req.token.id) : u.role = "admin"

\* C12: the role check decides on the role stored in the record of the token's
\* id, not on the role in the token: when the two differ, the role it resolves
\* is the stored one and the request is let through exactly when the stored
\* role is admin or in the allow-list.
C12_StoredRoleDecides ==
  [][RoleCheckDecides =>
       \A u \in UserGetById(req.token.id) :
         u.role # req.token.role
           => /\ req'.role = u.role
              /\ Allowed(req') <=> (u.role = "admin" \/ u.role \in req.allowed)]_vars

C12_Witness ==
  /\ res.op = "checkRole"
  /\ req.token.role = "admin"
  /\ req.role = "guest"
  /\ req.allowed = {"admin"}
  /\ res.status = 403
  /\ req.stage = "refused"

\* C13: the authentication check answers 401 "No token provided" to a request
\* without a bearer token, 401 "Token has expired" to an access token past its
\* expiry and 401 "Invalid token" to a token that fails verification otherwise;
\* a request it refused reaches neither the role check nor the handler; on
\* success the id, role and email of the token are attached to the request.
C13_AuthenticationCheck ==
  /\ [](res.op = "auth" =>
          LET tok == res.presented
          IN IF tok = NoToken
             THEN res.status = 401 /\ res.msg = MsgNoTokenProvided /\ req.stage = "refused"
             ELSE IF tok.secret # JWT_SECRET
             THEN res.status = 401 /\ res.msg = MsgInvalidToken /\ req.stage = "refused"
             ELSE IF tok.exp # NoExp /\ clock >= tok.exp
             THEN res.status = 401 /\ res.msg = MsgTokenExpired /\ req.stage = "refused"
             ELSE /\ req.stage = "authenticated"
                  /\ req.user = [id |-> tok.id, role |-> tok.role, email |-> tok.email])
  /\ [][req.stage = "refused" => res'.op \notin {"checkRole", "handler"}]_vars

C13_Witness ==
  /\ res.op = "auth"
  /\ res.msg = MsgTokenExpired
  /\ res.presented.secret = JWT_SECRET
  /\ req.stage = "refused"

ValidlySigned(op, tok) ==
  /\ tok.secret = IF op = "verifyEmail" THEN JWT_VERIFY_SECRET ELSE JWT_RESET_SECRET
  /\ (tok.exp = NoExp \/ clock < tok.exp)

\* C19: resetPassword with a valid reset token and verifyEmail with a valid
\* verification token, for an email that no stored record has, fail with
\* status 404; no record is created and none is modified.
C19_UnknownEmailNotFound ==
  [][(/\ res'.op \in {"resetPassword", "verifyEmail"}
      /\ ValidlySigned(res'.op, res'.presented)
      /\ FindByEmail(res'.presented.email) = {})
       => /\ res'.status = 404
          /\ res'.msg = MsgEmailNotExist
          /\ users' = users]_vars

\* Every stored record of the email lacks a password
Passwordless(email) ==
  /\ FindByEmail(email) # {}
  /\ \A u \in FindByEmail(email) : u.password = NoPassword

\* C20: for a stored record without a password, login fails with "User has not
\* been registered" and issues no token, resetPassword with a valid reset
\* token for its email fails with the same error and writes nothing, and no
\* operation ever gives such a record a password.
C20_PasswordlessStaysOut ==
  /\ [][(res'.op = "login" /\ Passwordless(res'.email))
          => /\ res'.msg = MsgNotRegistered
             /\ res'.access_token = NoToken
             /\ users' = users]_vars
  /\ [][(/\ res'.op = "resetPassword"
         /\ ValidlySigned("resetPassword", res'.presented)
         /\ Passwordless(res'.presented.email))
          => /\ res'.msg = MsgNotRegistered
             /\ users' = users]_vars
  /\ [][\A u \in users : \A v \in users' :
          (u.password = NoPassword /\ v.id = u.id) => v.password = NoPassword]_vars

C20_Witness ==
  /\ res.op = "resetPassword"
  /\ res.msg = MsgNotRegistered
  /\ res.presented \in MailedTokens("reset")
  /\ Passwordless(res.presented.email)

\* C21: a reset token is consumed exactly once: a resetPassword that presents
\* the token of the resetPassword that has just succeeded does not change the
\* stored record again.
C21_ResetTokenSingleUse ==
  [][(/\ res.op = "resetPassword" /\ res.status = 200
      /\ res'.op = "resetPassword" /\ res'.presented = res.presented)
       => users' = users]_vars

\* C22: emailVerified is false on the record register creates, it becomes
\* true only by a successful verifyEmail for the email of the record, and no
\* auth operation sets it back to false.
C22_EmailVerifiedMonotonic ==
  [][/\ \A v \in users' :
          (\A u \in users : u.id # v.id) => (~v.emailVerified /\ res'.op = "register")
     /\ \A u \in users, v \in users' :
          u.id = v.id =>
            /\ u.emailVerified => v.emailVerified
            /\ (~u.emailVerified /\ v.emailVerified) =>
                 /\ res'.op = "verifyEmail"
                 /\ res'.status = 200
                 /\ res'.presented.email = v.email]_vars

C22_Witness ==
  /\ res.op = "resetPassword"
  /\ res.status = 200
  /\ \E u \in FindByEmail(res.email) : u.emailVerified

\* C24: resetPassword is accepted for verified and unverified accounts alike,
\* and a successful resetPassword replaces the passwordHash of the record of
\* the token's email and nothing else: every other field, every other record
\* and the access tokens stay as they were, and no access token is returned.
C24_ResetChangesOnlyPassword ==
  [][res'.op = "resetPassword" =>
       /\ access' = access
       /\ res'.access_token = NoToken
       /\ (/\ JwtVerify(res'.presented, JWT_RESET_SECRET, clock).ok
           /\ \E u \in FindByEmail(res'.presented.email) : u.password # NoPassword)
            => res'.status = 200
       /\ res'.status = 200 =>
            \E u \in users, v \in users' :
              /\ u.email = res'.presented.email
              /\ users' \ {v} = users \ {u}
              /\ v = [u EXCEPT !.password = v.password]
              /\ BcryptCompare(res'.password, v.password)]_vars

C24_Witness ==
  /\ res.op = "resetPassword"
  /\ res.status = 200
  /\ res.password = "NewPw123456"
  /\ \E u \in FindByEmail(res.email) :
       ~u.emailVerified /\ BcryptCompare(res.password, u.password)

\* C27: login never writes to the store, and a login, resetPassword or
\* verifyEmail that ends in an error leaves every user record as it was.
C27_FailuresWriteNothing ==
  [][/\ res'.op = "login" => users' = users
     /\ (res'.op \in {"login", "resetPassword", "verifyEmail"} /\ res'.status # 200)
          => users' = users]_vars

C27_Witness ==
  /\ res.op = "resetPassword"
  /\ res.msg = MsgJwtExpired
  /\ \E u \in FindByEmail(res.presented.email) : u.password # NoPassword

\* A value bcrypt.hash returns
IsBcryptHash(h) == \E p \in Passwords, salt \in Salts : h = BcryptHash(p, salt)

\* C23: within a register request the password is hashed before the record
\* is inserted, so the suspended call and every stored record hold a hash and
\* never the plaintext; and the record is inserted before the verification
\* mail is dispatched, so a verification mail exists only for an email whose
\* insert happened, and it is dispatched by the step that inserts.
C23_RegisterOrder ==
  /\ [](\A call \in pending : IsBcryptHash(call.model.password))
  /\ [](\A u \in users : IsBcryptHash(u.password))
  /\ [](\A m \in outbox : m.subject = "verify" => \E u \in users : u.email = m.to)
  /\ [][\A m \in outbox' \ outbox :
          m.subject = "verify" => \E v \in users' \ users : v.email = m.to]_vars

C23_Witness ==
  /\ res.op = "register"
  /\ res.status = 200
  /\ pending # {}
  /\ \E m \in outbox :
       /\ m.subject = "verify"
       /\ \E u \in users : u.email = m.to /\ IsBcryptHash(u.password)

\* C26: no record created through register has the admin role: whatever the
\* request body carries, the record register inserts has the role guest.
C26_RegisterNeverAdmin ==
  /\ \A u \in users : u.role = "guest"
  /\ \A call \in pending : call.model.role = "guest"

C26_Witness ==
  /\ res.op = "register"
  /\ res.status = 200
  /\ res.reqRole = "admin"
  /\ \E u \in users : u.id = nextId - 1 /\ u.email = res.email /\ u.role = "guest"

\* C25: a failure of the store during the role check's lookup of the user is
\* reported as an internal error, never as Unauthorized (401) or Forbidden
\* (403).
C25_StoreFailureIsInternalError ==
  ~res.storeUp => res.status \notin {401, 403}

\* the operations a protected route runs after the role check
HandlerOps == {"handler", "updatePost", "deletePost"}

\* C28: a role check on a request whose still-unexpired access token names a
\* user whose record is no longer in the store refuses the request, for every
\* allow-list, and no handler runs for a refused request.
C28_DeletedUserRefused ==
  /\ [][(/\ res'.op = "checkRole"
         /\ req.token # NoToken
         /\ JwtVerify(req.token, JWT_SECRET, clock).ok
         /\ UserGetById(req.token.id) = {})
          => /\ req'.stage = "refused"
             /\ res'.status \in {401, 403}]_vars
  /\ [][req.stage = "refused" => res'.op \notin HandlerOps]_vars

C28_Witness ==
  /\ res.op = "checkRole"
  /\ res.storeUp
  /\ res.status = 401
  /\ req.stage = "refused"
  /\ JwtVerify(req.token, JWT_SECRET, clock).ok
  /\ UserGetById(req.token.id) = {}
  /\ \E u \in SeededUsers : u.id = req.token.id

\* C29: a caller who is not the owner of a post and whose stored role is
\* guest cannot update or delete the post: the request fails and the post is
\* left as it was, whatever role the caller's token carries.
C29_PostOwnerOrStoredAdmin ==
  [][res'.op \in {"updatePost", "deletePost"} =>
       \A post \in posts :
         (/\ post.id = res'.target
          /\ req.token.id # post.idUser
          /\ \E u \in UserGetById(req.token.id) : EntityRole(u) = "guest")
           => /\ res'.status # 200
              /\ post \in posts']_vars

\* C30: a deleteUser that ends with an error response has left the user
\* record in the store, and deleteUser of an existing user who has no posts
\* ends with a success response.
C30_DeleteUserErrorMeansKept ==
  [][res'.op = "deleteUser" =>
       \A u \in UserGetById(res'.target) :
         /\ res'.status # 200 => u \in users'
         /\ (AuthMiddlewareResponse(res'.presented).status = 0 /\ PostsByUser(u.id) = {})
              => res'.status = 200]_vars

====
